---- MODULE Spec2Model ----
(***************************************************************************)
(* Model of meeting_agent.py: the History Store (session list plus the     *)
(* persisted meeting_history.json), the six-task meeting_prep_crew run     *)
(* started by "Prepare Meeting", the one-shot transcript task and the      *)
(* practice session.  One Streamlit session is modelled; a handler runs    *)
(* to its end before the next interaction is served.                       *)
(***************************************************************************)
EXTENDS Integers, Sequences, FiniteSets, TLC

\* entries = entries[:20]
HistoryCap == 20

\* Bounds of the model:
\* _save_meeting_to_history calls in SpecStore
MaxAppends == 25
\* _save_meeting_to_history calls in Spec
MaxRuns == 2
\* I/O failures (write, unlink, read) injected in one behaviour
MaxFaults == 1
\* practice_history length in SpecPractice
MaxTurns == 12
\* length of the words texts are made of
MaxLen == 3
\* largest character budget (the slider's 1000..20000, scaled down)
MaxBudget == 4
\* files of one upload
MaxFiles == 2

VARIABLES
    meeting_history,    \* st.session_state["meeting_history"], most recent first
    history_file,       \* data/meeting_history.json: [state, entries]
    practice_history,   \* st.session_state["practice_history"]
    clock,              \* number of _save_meeting_to_history calls so far (datetime.utcnow())
    streak,             \* consecutive calls of it since the last clear or load
    faults,             \* I/O failures injected so far
    pc,                 \* "idle", or "kickoff" while meeting_prep_crew.kickoff() runs
    submitted,          \* form fields of the run in progress / last run, or as
                        \* loaded into the form since
    done,               \* tasks of the run that have returned
    in_flight,          \* tasks of the run being executed by the backend
    invoked,            \* tasks of the run in the order they were started
    surfaced,           \* st.error calls of the current / last handler
    result,             \* what the last kickoff handed to the handler
    last,               \* the last handler that ended, and how
    uncaught,           \* TRUE when an exception escaped the last handler
    loaded,             \* what _read_history_file returned, when the last handler called it
    before,             \* session state and file when the current / last handler began
    practice_log,       \* history_text of the last handler, empty when it built none
    truncation,         \* the last _truncate_text call: text, budget, value returned,
                        \* and whether the text was the value of the call before
    normalization,      \* a result, and what _result_to_markdown returned for it
    uploaded_files,     \* the files of the uploader at the last script run
    supporting_documents,   \* what _extract_supporting_documents returned for them
    warnings,           \* the st.warning calls it made
    truncate_chars,     \* st.session_state["truncate_chars"]
    documents_digest,   \* what _build_document_digest returned
    directive_inputs,   \* include_live_updates, include_regulatory, meeting_notes
    context_directives_text \* the directive bullets, one line each

sessionVars == <<meeting_history, history_file, practice_history, clock, streak, faults,
                 pc, submitted, done, in_flight, invoked, surfaced, result, last,
                 uncaught, loaded, before>>

assemblyVars == <<uploaded_files, supporting_documents, warnings, truncate_chars,
                  documents_digest, directive_inputs, context_directives_text>>

pureVars == <<truncation, normalization, assemblyVars>>

vars == <<sessionVars, practice_log, pureVars>>

runVars == <<pc, submitted, done, in_flight, invoked, result>>

Min(a, b) == IF a <= b THEN a ELSE b

----------------------------------------------------------------------------
(* Input domains *)

Companies == {"", "Acme Corp"}
Objectives == {"", "Renewal negotiation"}
DocumentLists == {<< >>, <<"deck.pdf", "notes.txt">>}
NoSubmission == [company |-> "", objective |-> "", documents |-> << >>]

AbsentFile == [state |-> "absent", entries |-> << >>]

\* Outcomes of Path.write_text / mkdir: done, failed before the file was opened,
\* failed after it was truncated.
WriteOutcomes == {"ok", "fail_before", "fail_partial"}
\* Outcomes of HISTORY_FILE.unlink() and HISTORY_FILE.read_text()
UnlinkOutcomes == {"ok", "fail"}
ReadOutcomes == {"ok", "fail"}

Snapshot == [history |-> meeting_history, file |-> history_file,
             practice |-> practice_history]

----------------------------------------------------------------------------
(* History Store *)

\* history_entry = {...}: timestamp, company, objective, documents, result.
\* attendees and focusAreas are copied from the form like company and are left out.
HistoryEntryNoDocuments(ts, company, objective, documents, text) ==
    [timestamp |-> ts, company |-> company, objective |-> objective,
     documents |-> << >>, result |-> text]
HistoryEntry(ts, company, objective, documents, text) ==
    [timestamp |-> ts, company |-> company, objective |-> objective,
     documents |-> documents, result |-> text]

\* entries.insert(0, entry)
InsertedAtEnd(entries, entry) == Append(entries, entry)
InsertedOverFirst(entries, entry) ==
    IF entries = << >> THEN <<entry>> ELSE <<entry>> \o Tail(entries)
Inserted(entries, entry) == <<entry>> \o entries

\* entries = entries[:20]
TruncatedOffByOne(entries) == SubSeq(entries, 1, Min(Len(entries), HistoryCap + 1))
Truncated(entries) == SubSeq(entries, 1, Min(Len(entries), HistoryCap))

\* _write_history_file(entries) with outcome wr: the file afterwards, and whether
\* the call raised.  json.dumps of a list of str-keyed dicts of strings and string
\* lists decodes (json.loads) to an equal list: the file is represented by the list
\* it decodes to, and a file cut short by a failed write decodes to nothing.
WriteHistoryFileStale(f, entries, wr) ==
    CASE wr = "ok"           -> [file |-> [state |-> "ok", entries |-> Tail(entries)],
                                 raised |-> FALSE]
      [] wr = "fail_before"  -> [file |-> f, raised |-> TRUE]
      [] wr = "fail_partial" -> [file |-> [state |-> "corrupt", entries |-> << >>],
                                 raised |-> TRUE]
WriteHistoryFile(f, entries, wr) ==
    CASE wr = "ok"           -> [file |-> [state |-> "ok", entries |-> entries],
                                 raised |-> FALSE]
      [] wr = "fail_before"  -> [file |-> f, raised |-> TRUE]
      [] wr = "fail_partial" -> [file |-> [state |-> "corrupt", entries |-> << >>],
                                 raised |-> TRUE]

\* _read_history_file() with read_text outcome rd: the value returned, and whether
\* the call raised.
ReadHistoryFileUnguarded(f, rd) ==
    IF f.state = "absent" THEN [value |-> << >>, raised |-> FALSE]
    ELSE IF rd = "fail" \/ f.state = "corrupt" THEN [value |-> << >>, raised |-> TRUE]
    ELSE [value |-> f.entries, raised |-> FALSE]
ReadHistoryFile(f, rd) ==
    IF f.state = "absent" THEN [value |-> << >>, raised |-> FALSE]
    ELSE IF rd = "fail" \/ f.state = "corrupt" THEN [value |-> << >>, raised |-> FALSE]
    ELSE [value |-> f.entries, raised |-> FALSE]

\* _save_meeting_to_history(entry): the session list is replaced before the file
\* is written, so it holds the new list whether or not the write raises.
SaveMeetingToHistory(entry, wr) ==
    LET entries == Truncated(Inserted(meeting_history, entry))
        w == WriteHistoryFile(history_file, entries, wr)
    IN  /\ wr # "ok" => faults < MaxFaults
        /\ meeting_history' = entries
        /\ history_file' = w.file
        /\ uncaught' = w.raised
        /\ clock' = clock + 1
        /\ streak' = streak + 1
        /\ faults' = IF wr = "ok" THEN faults ELSE faults + 1

\* try: if HISTORY_FILE.exists(): HISTORY_FILE.unlink()  except Exception: pass
\* The file after it, with unlink outcome ul (used only when the file exists).
UnlinkSkipped(f, ul) == f
Unlink(f, ul) == IF f.state # "absent" /\ ul = "ok" THEN AbsentFile ELSE f

\* _clear_history()
ClearHistory(ul) ==
    /\ pc = "idle"
    /\ (ul = "fail") => (history_file.state # "absent" /\ faults < MaxFaults)
    /\ before' = Snapshot
    /\ history_file' = Unlink(history_file, ul)
    /\ meeting_history' = << >>
    /\ streak' = 0
    /\ faults' = IF ul = "fail" THEN faults + 1 ELSE faults
    /\ last' = IF ul = "fail" THEN "clear_unlink_failed" ELSE "clear"
    /\ uncaught' = FALSE
    /\ surfaced' = 0
    /\ loaded' = << >>
    /\ UNCHANGED <<practice_history, clock, runVars>>
    /\ practice_log' = << >>
    /\ UNCHANGED pureVars

\* A new session: "meeting_history" is not in st.session_state, so it is loaded
\* from the file; the practice session starts empty.
NewSession(rd) ==
    LET r == ReadHistoryFile(history_file, rd)
    IN  /\ pc = "idle"
        /\ (rd = "fail") => (history_file.state = "ok" /\ faults < MaxFaults)
        /\ before' = Snapshot
        /\ loaded' = r.value
        /\ uncaught' = r.raised
        /\ meeting_history' = IF r.raised THEN meeting_history ELSE r.value
        /\ practice_history' = << >>
        /\ streak' = 0
        /\ faults' = IF rd = "fail" THEN faults + 1 ELSE faults
        /\ last' = IF history_file.state = "absent" THEN "load_absent"
                   ELSE IF rd = "fail" THEN "load_unreadable"
                   ELSE IF history_file.state = "corrupt" THEN "load_corrupt"
                   ELSE "load"
        /\ surfaced' = 0
        /\ submitted' = NoSubmission
        /\ UNCHANGED <<history_file, clock, pc, done, in_flight, invoked, result>>
        /\ practice_log' = << >>
        /\ UNCHANGED pureVars

\* if st.sidebar.button("Load into form"): company and objective of the selected
\* entry (attendees and focusAreas likewise) are copied into the form
LoadIntoForm(selected_idx) ==
    /\ pc = "idle"
    /\ selected_idx \in 1..Len(meeting_history)
    /\ before' = Snapshot
    /\ submitted' = [submitted EXCEPT !.company = meeting_history[selected_idx].company,
                                     !.objective = meeting_history[selected_idx].objective]
    /\ last' = "load_into_form"
    /\ surfaced' = 0
    /\ uncaught' = FALSE
    /\ loaded' = << >>
    /\ UNCHANGED <<meeting_history, history_file, practice_history, clock, streak,
                   faults, pc, done, in_flight, invoked, result>>
    /\ practice_log' = << >>
    /\ UNCHANGED pureVars

\* append(entry) called on the store directly
StoreAppend(company, wr) ==
    /\ pc = "idle"
    /\ clock < MaxAppends
    /\ before' = Snapshot
    /\ SaveMeetingToHistory(
           HistoryEntry(clock + 1, company, "Renewal negotiation", << >>, "brief"), wr)
    /\ last' = IF wr = "ok" THEN "append" ELSE "append_write_failed"
    /\ surfaced' = 0
    /\ loaded' = << >>
    /\ UNCHANGED <<practice_history, runVars>>
    /\ practice_log' = << >>
    /\ UNCHANGED pureVars

----------------------------------------------------------------------------
(* The six-task pipeline and the Prepare Meeting handler *)

\* meeting_prep_crew = Crew(tasks=[...], process=Process.sequential)
Tasks == <<"context_analysis_task", "industry_analysis_task",
           "strategy_development_task", "executive_brief_task",
           "rehearsal_simulation_task", "follow_up_activation_task">>

\* The task a sequential crew starts once `n` tasks have been started
NextTask(n) == Tasks[n + 1]

\* A sequential crew starts a task only when none is being executed
MayStartAlways(flying) == TRUE
MayStartNever(flying) == FALSE
MayStart(flying) == flying = {}

\* `if result:` with result None after an exception, a CrewOutput, or a falsy value
TruthyAlways(r) == TRUE
Truthy(r) == r = "brief"

\* if not company_name or not meeting_objective
MissingInputBoth(company, objective) == company = "" /\ objective = ""
MissingInput(company, objective) == company = "" \/ objective = ""

\* st.button("Prepare Meeting"): the warning, or the start of kickoff()
ClickPrepareMeeting(company, objective, documents) ==
    /\ pc = "idle"
    /\ clock < MaxRuns
    /\ before' = Snapshot
    /\ submitted' = [company |-> company, objective |-> objective,
                     documents |-> documents]
    /\ done' = 0
    /\ in_flight' = {}
    /\ invoked' = << >>
    /\ surfaced' = 0
    /\ result' = "none"
    /\ uncaught' = FALSE
    /\ loaded' = << >>
    /\ IF MissingInput(company, objective)
       THEN pc' = "idle" /\ last' = "prepare_rejected"
       ELSE pc' = "kickoff" /\ last' = "prepare_running"
    /\ UNCHANGED <<meeting_history, history_file, practice_history, clock, streak, faults>>
    /\ practice_log' = << >>
    /\ UNCHANGED pureVars

\* kickoff(): the crew hands the next task to the backend
TaskStart ==
    /\ pc = "kickoff"
    /\ done + Cardinality(in_flight) < Len(Tasks)
    /\ MayStart(in_flight)
    /\ in_flight' = in_flight \cup {NextTask(done + Cardinality(in_flight))}
    /\ invoked' = Append(invoked, NextTask(done + Cardinality(in_flight)))
    /\ UNCHANGED <<meeting_history, history_file, practice_history, clock, streak, faults,
                   pc, submitted, done, surfaced, result, last, uncaught, loaded,
                   before, practice_log, pureVars>>

\* kickoff(): the backend returns the text of a task
TaskReturn ==
    /\ pc = "kickoff"
    /\ \E t \in in_flight :
          /\ in_flight' = in_flight \ {t}
          /\ done' = done + 1
    /\ UNCHANGED <<meeting_history, history_file, practice_history, clock, streak, faults,
                   pc, submitted, invoked, surfaced, result, last, uncaught, loaded,
                   before, practice_log, pureVars>>

\* The end of the Prepare Meeting handler once kickoff() has handed over `r`:
\* `if result:` renders the brief and archives it.
FinishPrepare(r, wr) ==
    /\ result' = r
    /\ pc' = "idle"
    /\ in_flight' = {}
    /\ last' = IF r = "none" THEN "prepare_failed"
               ELSE IF r = "empty" THEN "prepare_empty"
               ELSE IF wr = "ok" THEN "prepare_archived"
               ELSE "prepare_write_failed"
    /\ IF Truthy(r)
       THEN SaveMeetingToHistory(
                HistoryEntry(clock + 1, submitted.company, submitted.objective,
                             submitted.documents, "brief"), wr)
       ELSE /\ wr = "ok"
            /\ uncaught' = FALSE
            /\ UNCHANGED <<meeting_history, history_file, clock, streak, faults>>
    /\ UNCHANGED <<practice_history, submitted, done, invoked, loaded, before>>
    /\ practice_log' = << >>
    /\ UNCHANGED pureVars

\* kickoff(): a task raises; `except Exception` reports it once and sets result = None
TaskFail ==
    /\ pc = "kickoff"
    /\ in_flight # {}
    /\ surfaced' = surfaced + 1
    /\ FinishPrepare("none", "ok")

\* kickoff() returns after the last task
KickoffReturn(r, wr) ==
    /\ pc = "kickoff"
    /\ done = Len(Tasks)
    /\ in_flight = {}
    /\ surfaced' = surfaced
    /\ FinishPrepare(r, wr)

----------------------------------------------------------------------------
(* One-shot tasks: transcript summary and practice mode *)

\* str.strip() on the texts the model submits
Strip(text) == IF text = "  " THEN "" ELSE text
Texts == {"  ", "answer"}

\* What a one-shot temp_crew.kickoff() does: returns a result, raises, or
\* returns a falsy value
OneShotOutcomes == {"ok", "error", "empty"}

\* f"{meeting_objective} (Transcript Summary)"
TranscriptObjective(objective) ==
    IF objective = "" THEN " (Transcript Summary)"
    ELSE "Renewal negotiation (Transcript Summary)"

\* if extract_now and transcript_text.strip(): ... if save_to_library: save
SummarizeTranscript(company, objective, text, save, outcome, wr) ==
    /\ pc = "idle"
    /\ clock < MaxRuns
    /\ Strip(text) # ""
    /\ before' = Snapshot
    /\ surfaced' = IF outcome = "error" THEN 1 ELSE 0
    /\ loaded' = << >>
    /\ IF outcome = "ok" /\ save
       THEN /\ SaveMeetingToHistory(
                   HistoryEntry(clock + 1, company, TranscriptObjective(objective),
                                << >>, "summary"), wr)
            /\ last' = IF wr = "ok" THEN "transcript_saved"
                       ELSE "transcript_write_failed"
       ELSE /\ wr = "ok"
            /\ last' = IF outcome = "ok" THEN "transcript_shown"
                       ELSE IF outcome = "error" THEN "transcript_failed"
                       ELSE "transcript_empty"
            /\ uncaught' = FALSE
            /\ UNCHANGED <<meeting_history, history_file, clock, streak, faults>>
    /\ UNCHANGED <<practice_history, runVars>>
    /\ practice_log' = << >>
    /\ UNCHANGED pureVars

Turn(role, content) == [role |-> role, content |-> content]

\* [...][-10:]
PracticeLogTurns == 10

\* f"{t.get('role', 'coach')}: {t.get('content', '')}"
PracticeLine(t) == <<t.role, ": ", t.content>>

\* lines[-10:]
FirstTurns(lines) == SubSeq(lines, 1, Min(Len(lines), PracticeLogTurns))
LastTurns(lines) ==
    SubSeq(lines, IF Len(lines) > PracticeLogTurns
                  THEN Len(lines) - PracticeLogTurns + 1 ELSE 1, Len(lines))

\* history_text = "\n".join([... for t in practice_history][-10:]), one line each
HistoryText(turns) == LastTurns([i \in 1..Len(turns) |-> PracticeLine(turns[i])])

\* if ask_next: ... if obj_res: practice_history.append(coach turn)
AskNextObjection(outcome) ==
    /\ pc = "idle"
    /\ Len(practice_history) < MaxTurns
    /\ before' = Snapshot
    /\ practice_log' = HistoryText(practice_history)
    /\ practice_history' =
          IF outcome = "ok" THEN Append(practice_history, Turn("coach", "objection"))
          ELSE practice_history
    /\ surfaced' = IF outcome = "error" THEN 1 ELSE 0
    /\ last' = IF outcome = "ok" THEN "objection"
               ELSE IF outcome = "error" THEN "objection_failed"
               ELSE "objection_empty"
    /\ uncaught' = FALSE
    /\ loaded' = << >>
    /\ UNCHANGED <<meeting_history, history_file, clock, streak, faults, runVars>>
    /\ UNCHANGED pureVars

\* if score_it and user_resp.strip(): the user's turn is appended before the
\* scoring task is run, the coach's feedback after it returned a result
ScoreResponse(user_resp, outcome) ==
    /\ pc = "idle"
    /\ Len(practice_history) + 2 <= MaxTurns
    /\ Strip(user_resp) # ""
    /\ before' = Snapshot
    /\ practice_log' = HistoryText(Append(practice_history, Turn("you", user_resp)))
    /\ practice_history' =
          IF outcome = "ok"
          THEN practice_history \o <<Turn("you", user_resp), Turn("coach", "feedback")>>
          ELSE Append(practice_history, Turn("you", user_resp))
    /\ surfaced' = IF outcome = "error" THEN 1 ELSE 0
    /\ last' = IF outcome = "ok" THEN "score"
               ELSE IF outcome = "error" THEN "score_failed"
               ELSE "score_empty"
    /\ uncaught' = FALSE
    /\ loaded' = << >>
    /\ UNCHANGED <<meeting_history, history_file, clock, streak, faults, runVars>>
    /\ UNCHANGED pureVars

\* if clear_sess: st.session_state["practice_history"] = []
ClearSession ==
    /\ pc = "idle"
    /\ before' = Snapshot
    /\ practice_history' = << >>
    /\ surfaced' = 0
    /\ last' = "clear_session"
    /\ uncaught' = FALSE
    /\ loaded' = << >>
    /\ UNCHANGED <<meeting_history, history_file, clock, streak, faults, runVars>>
    /\ practice_log' = << >>
    /\ UNCHANGED pureVars

----------------------------------------------------------------------------
(* Texts and _truncate_text.  A text is the sequence of its characters. *)

Alphabet == {"a", "b"}
Words(n) == UNION {[1..k -> Alphabet] : k \in 0..n}

\* "\n\n...[truncated]..."
TruncationMarker == <<"\n", "\n", ".", ".", ".", "[", "t", "r", "u", "n", "c", "a",
                      "t", "e", "d", "]", ".", ".", ".">>

\* _truncate_text(value, max_chars), max_chars >= 0
TruncateTextMarkerFirst(value, max_chars) ==
    IF Len(value) <= max_chars THEN value
    ELSE TruncationMarker \o SubSeq(value, 1, max_chars)
TruncateTextNoMarker(value, max_chars) ==
    IF Len(value) <= max_chars THEN value ELSE SubSeq(value, 1, max_chars)
TruncateText(value, max_chars) ==
    IF Len(value) <= max_chars THEN value
    ELSE SubSeq(value, 1, max_chars) \o TruncationMarker

\* The texts handed to _truncate_text: short words, alone or followed by the
\* characters of the marker
TruncationTexts == {w \o tail : w \in Words(MaxLen), tail \in {<< >>, TruncationMarker}}

CallTruncateText(text, budget) ==
    /\ truncation' = [text |-> text, budget |-> budget,
                      out |-> TruncateText(text, budget), again |-> FALSE]
    /\ UNCHANGED <<sessionVars, practice_log, normalization, assemblyVars>>

\* _truncate_text called on the value it last returned, with the same budget
CallTruncateTextAgain ==
    /\ ~truncation.again
    /\ truncation' = [text |-> truncation.out, budget |-> truncation.budget,
                      out |-> TruncateText(truncation.out, truncation.budget),
                      again |-> TRUE]
    /\ UNCHANGED <<sessionVars, practice_log, normalization, assemblyVars>>

----------------------------------------------------------------------------
(* _result_to_markdown *)

\* for attr in ("raw", "final_output", "result", "output")
KnownFieldsReversed == <<"output", "result", "final_output", "raw">>
KnownFields == <<"raw", "final_output", "result", "output">>

\* What getattr(result, attr) meets: no such attribute, a lookup that raises, a
\* value that is no string, "", a whitespace-only string, a text
AttrStates == {"absent", "raises", "nonstr", "empty", "blank", "text"}

\* What hasattr(result, "to_dict") and the export meet: no such attribute, a
\* lookup that raises another exception than AttributeError, an export that
\* succeeds, an export (to_dict() or json.dumps) that raises
ToDictStates == {"absent", "lookup_raises", "ok", "export_raises"}

\* str(result) returns or raises
StrStates == {"ok", "raises"}

NoAttrs == [a \in {"raw", "final_output", "result", "output"} |-> "absent"]

PlainResult(text) ==
    [kind |-> "str", text |-> text, attrs |-> NoAttrs, to_dict |-> "absent",
     str |-> "ok"]
ObjectResult(attrs, to_dict, str) ==
    [kind |-> "obj", text |-> "", attrs |-> attrs, to_dict |-> to_dict, str |-> str]

Results ==
    {PlainResult(t) : t \in {"", "plain text"}}
    \cup {ObjectResult(attrs, td, st) :
            attrs \in [{"raw", "final_output", "result", "output"} -> AttrStates],
            td \in ToDictStates, st \in StrStates}

\* The string an attribute in state "empty", "blank" or "text" holds
AttrText(attr, state) ==
    IF state = "empty" THEN ""
    ELSE IF state = "blank" THEN "  "
    ELSE IF attr = "raw" THEN "raw text"
    ELSE IF attr = "final_output" THEN "final_output text"
    ELSE IF attr = "result" THEN "result text"
    ELSE "output text"

\* isinstance(val, str) and val.strip(), val being None when the attribute is
\* absent or its lookup raised
Usable(state) == state = "text"

Returned(value) == [raised |-> FALSE, value |-> value]
Raised == [raised |-> TRUE, value |-> ""]

\* try: return str(result)  except Exception: return ""
GenericConversion(r) == IF r.str = "ok" THEN Returned("str(result)") ELSE Returned("")

\* if hasattr(result, "to_dict"): try: return json.dumps(...)  except: pass
DictExport(r) ==
    IF r.to_dict = "lookup_raises" THEN Raised
    ELSE IF r.to_dict = "ok" THEN Returned("json of to_dict()")
    ELSE GenericConversion(r)

\* The loop over the known fields, from the i-th on
RECURSIVE FromField(_, _)
FromField(r, i) ==
    IF i > Len(KnownFields) THEN DictExport(r)
    ELSE IF Usable(r.attrs[KnownFields[i]])
         THEN Returned(AttrText(KnownFields[i], r.attrs[KnownFields[i]]))
         ELSE FromField(r, i + 1)

\* _result_to_markdown(result)
ResultToMarkdown(r) == IF r.kind = "str" THEN Returned(r.text) ELSE FromField(r, 1)

\* No call made yet, on `result`
NotCalled(r) == [result |-> r, called |-> FALSE, out |-> Returned("")]

\* The call of _result_to_markdown on the result at hand
CallResultToMarkdown ==
    /\ ~normalization.called
    /\ normalization' = [result |-> normalization.result, called |-> TRUE,
                         out |-> ResultToMarkdown(normalization.result)]
    /\ UNCHANGED <<sessionVars, practice_log, truncation, assemblyVars>>

----------------------------------------------------------------------------
(* Document ingestion, the document digest and the directives: lines 583-607 *)
(* of the script, run on every submission of the form.                      *)

Whitespace == {" ", "\n"}

\* str.strip()
RECURSIVE LStrip(_)
LStrip(s) == IF s # << >> /\ Head(s) \in Whitespace THEN LStrip(Tail(s)) ELSE s
RECURSIVE RStrip(_)
RStrip(s) ==
    IF s # << >> /\ s[Len(s)] \in Whitespace THEN RStrip(SubSeq(s, 1, Len(s) - 1)) ELSE s
StripTextNot(s) == s
StripText(s) == RStrip(LStrip(s))

\* A text longer than every budget
LongText == [i \in 1..(MaxBudget + 1) |-> IF i % 2 = 1 THEN "a" ELSE "b"]

\* What extraction or decoding yields: nothing, whitespace only, a short text
\* with whitespace around it, a long text
ExtractedTexts == {<< >>, <<" ">>, <<" ", "a", "b", "\n">>, LongText}

PdfNames == {"deck.pdf"}
OtherNames == {"notes.txt"}

\* name.lower().endswith(".pdf")
IsPdf(name) == name \in PdfNames

\* An uploaded file: its name, whether getvalue() holds any byte, whether
\* extraction succeeds, and the text extraction yields.  Only PdfReader fails:
\* decode("utf-8", errors="ignore") returns for every byte string.
UploadedFile(name, bytes, readable, text) ==
    [name |-> name, bytes |-> bytes, readable |-> readable, text |-> text]
Files ==
    {UploadedFile(n, FALSE, TRUE, << >>) : n \in PdfNames \cup OtherNames}
    \cup {UploadedFile(n, TRUE, FALSE, << >>) : n \in PdfNames}
    \cup {UploadedFile(n, TRUE, TRUE, t) : n \in PdfNames \cup OtherNames,
                                           t \in ExtractedTexts}
Uploads == UNION {[1..k -> Files] : k \in 0..MaxFiles}

\* st.warning(f"Could not read {name}: {exc}") / f"Could not decode {name}: {exc}"
Warning(name) == <<IF IsPdf(name) THEN "Could not read " ELSE "Could not decode ", name>>

NothingIngested == [documents |-> << >>, warnings |-> << >>, raised |-> FALSE]

\* except Exception as exc: st.warning(...); continue
OnExtractionFailureFatal(acc, name) == [acc EXCEPT !.raised = TRUE]
OnExtractionFailure(acc, name) == [acc EXCEPT !.warnings = Append(@, Warning(name))]

\* The loop of _extract_supporting_documents from the i-th file on
RECURSIVE ExtractFrom(_, _, _)
ExtractFrom(files, i, acc) ==
    IF i > Len(files) \/ acc.raised THEN acc
    ELSE IF ~files[i].bytes THEN ExtractFrom(files, i + 1, acc)
    ELSE IF ~files[i].readable
         THEN ExtractFrom(files, i + 1, OnExtractionFailure(acc, files[i].name))
    ELSE IF StripText(files[i].text) = << >> THEN ExtractFrom(files, i + 1, acc)
    ELSE ExtractFrom(files, i + 1,
            [acc EXCEPT !.documents =
                Append(@, [name |-> files[i].name,
                           content |-> StripText(files[i].text)])])

\* _extract_supporting_documents(uploaded_files)
ExtractSupportingDocuments(files) == ExtractFrom(files, 1, NothingIngested)

\* "No additional supporting documents were provided."
Placeholder == <<"No additional supporting documents were provided.">>

\* "\n\n".join(sections): the separator is one token of the digest
SectionSeparator == "\n\n"
RECURSIVE Join(_)
Join(sections) ==
    IF sections = << >> THEN << >>
    ELSE IF Len(sections) = 1 THEN sections[1]
    ELSE sections[1] \o <<SectionSeparator>> \o Join(Tail(sections))

\* f"Document: {doc['name']}\nContent Preview:\n{_truncate_text(doc['content'], ...)}"
Section(doc, budget) ==
    <<"Document: ", doc.name, "\nContent Preview:\n">> \o TruncateText(doc.content, budget)

\* _build_document_digest(documents), truncate_chars being `budget`
BuildDocumentDigestNoPlaceholder(documents, budget) ==
    Join([i \in 1..Len(documents) |-> Section(documents[i], budget)])
BuildDocumentDigest(documents, budget) ==
    IF documents = << >> THEN Placeholder
    ELSE Join([i \in 1..Len(documents) |-> Section(documents[i], budget)])

LiveDirective ==
    "Incorporate the most recent news, market movements, and growth signals discovered via live search."
RegulatoryDirective ==
    "Highlight regulatory, compliance, and localization considerations that could influence the meeting."
NotesDirective ==
    "Bridge insights with the historical notes provided to emphasize continuity and momentum."
FallbackDirective == "Focus on actionable intelligence."

\* meeting_notes of the text area: nothing, whitespace only, a text
Notes == {"", "  ", "Renewal call of last quarter"}

DirectiveInputs == [live : BOOLEAN, regulatory : BOOLEAN, notes : Notes]

\* context_directives after the three ifs; `if meeting_notes` holds for every
\* string but ""
ContextDirectivesNotesFirst(in) ==
    (IF in.notes # "" THEN <<NotesDirective>> ELSE << >>)
    \o (IF in.live THEN <<LiveDirective>> ELSE << >>)
    \o (IF in.regulatory THEN <<RegulatoryDirective>> ELSE << >>)
ContextDirectives(in) ==
    (IF in.live THEN <<LiveDirective>> ELSE << >>)
    \o (IF in.regulatory THEN <<RegulatoryDirective>> ELSE << >>)
    \o (IF in.notes # "" THEN <<NotesDirective>> ELSE << >>)

\* f"- {directive}"
Bullet(directive) == <<"- ", directive>>

\* "\n".join(f"- {directive}" ...) or "- Focus on actionable intelligence.":
\* the lines of the text
ContextDirectivesTextNoFallback(directives) ==
    [i \in 1..Len(directives) |-> Bullet(directives[i])]
ContextDirectivesText(directives) ==
    IF directives = << >> THEN <<Bullet(FallbackDirective)>>
    ELSE [i \in 1..Len(directives) |-> Bullet(directives[i])]

\* No submission assembled yet
NotAssembled == context_directives_text = << >>

\* One run of lines 583-607 on the inputs of the form
AssembleContext ==
    /\ NotAssembled
    /\ LET ingested == ExtractSupportingDocuments(uploaded_files) IN
          /\ supporting_documents' = ingested.documents
          /\ warnings' = ingested.warnings
          /\ uncaught' = ingested.raised
          /\ documents_digest' =
                IF ingested.raised THEN << >>
                ELSE BuildDocumentDigest(ingested.documents, truncate_chars)
          /\ context_directives_text' =
                IF ingested.raised THEN <<"(not reached)">>
                ELSE ContextDirectivesText(ContextDirectives(directive_inputs))
    /\ last' = "assemble"
    /\ UNCHANGED <<meeting_history, history_file, practice_history, clock, streak,
                   faults, runVars, surfaced, loaded, before>>
    /\ UNCHANGED <<uploaded_files, truncate_chars, directive_inputs>>
    /\ UNCHANGED <<practice_log, truncation, normalization>>

----------------------------------------------------------------------------
InitSession ==
    /\ meeting_history = << >>
    /\ history_file = AbsentFile
    /\ practice_history = << >>
    /\ clock = 0
    /\ streak = 0
    /\ faults = 0
    /\ pc = "idle"
    /\ submitted = NoSubmission
    /\ done = 0
    /\ in_flight = {}
    /\ invoked = << >>
    /\ surfaced = 0
    /\ result = "none"
    /\ last = "none"
    /\ uncaught = FALSE
    /\ loaded = << >>
    /\ before = [history |-> << >>, file |-> AbsentFile, practice |-> << >>]
    /\ practice_log = << >>
    /\ truncation = [text |-> << >>, budget |-> 0, out |-> << >>, again |-> FALSE]

\* Nothing ingested, no digest and no directives yet
NothingAssembled ==
    /\ supporting_documents = << >>
    /\ warnings = << >>
    /\ documents_digest = << >>
    /\ context_directives_text = << >>

\* The form as it first renders: no upload, the sliders and checkboxes at their
\* defaults
DefaultForm ==
    /\ uploaded_files = << >>
    /\ truncate_chars = MaxBudget
    /\ directive_inputs = [live |-> TRUE, regulatory |-> FALSE, notes |-> ""]

Init ==
    /\ InitSession
    /\ normalization = NotCalled(PlainResult(""))
    /\ NothingAssembled
    /\ DefaultForm

StoreNext ==
    \/ \E wr \in WriteOutcomes : StoreAppend("Acme Corp", wr)
    \/ \E ul \in UnlinkOutcomes : ClearHistory(ul)
    \/ \E rd \in ReadOutcomes : NewSession(rd)

SpecStore == Init /\ [][StoreNext]_vars

\* The library of one session: briefs saved, loaded into the form, cleared
LibraryNext ==
    \/ \E wr \in WriteOutcomes : StoreAppend("Acme Corp", wr)
    \/ \E selected_idx \in 1..HistoryCap : LoadIntoForm(selected_idx)
    \/ \E ul \in UnlinkOutcomes : ClearHistory(ul)

SpecLibrary == Init /\ [][LibraryNext]_vars

Next ==
    \/ \E c \in Companies, o \in Objectives, d \in DocumentLists :
          ClickPrepareMeeting(c, o, d)
    \/ TaskStart
    \/ TaskReturn
    \/ TaskFail
    \/ \E r \in {"brief", "empty"}, wr \in WriteOutcomes : KickoffReturn(r, wr)
    \/ \E c \in Companies, o \in Objectives \ {""}, t \in Texts, save \in BOOLEAN,
          outcome \in OneShotOutcomes, wr \in WriteOutcomes :
          SummarizeTranscript(c, o, t, save, outcome, wr)
    \/ \E ul \in UnlinkOutcomes : ClearHistory(ul)
    \/ \E selected_idx \in 1..HistoryCap : LoadIntoForm(selected_idx)
    \/ \E rd \in ReadOutcomes : NewSession(rd)

Spec == Init /\ [][Next]_vars

\* The Prepare Meeting handler alone, with a backend whose every call eventually
\* returns or raises and a crew that goes on to the next task and to the end of
\* kickoff()
PrepareNext ==
    \/ \E c \in Companies, o \in Objectives, d \in DocumentLists :
          ClickPrepareMeeting(c, o, d)
    \/ TaskStart
    \/ TaskReturn
    \/ TaskFail
    \/ \E r \in {"brief", "empty"}, wr \in WriteOutcomes : KickoffReturn(r, wr)

BackendAnswers ==
    /\ WF_vars(TaskStart)
    /\ WF_vars(TaskReturn \/ TaskFail)
    /\ WF_vars(\E r \in {"brief", "empty"}, wr \in WriteOutcomes : KickoffReturn(r, wr))

SpecPrepare == Init /\ [][PrepareNext]_vars /\ BackendAnswers

PracticeNext ==
    \/ \E outcome \in OneShotOutcomes : AskNextObjection(outcome)
    \/ \E t \in Texts, outcome \in OneShotOutcomes : ScoreResponse(t, outcome)
    \/ ClearSession
    \/ \E rd \in ReadOutcomes : NewSession(rd)

SpecPractice == Init /\ [][PracticeNext]_vars

TruncateNext ==
    \/ \E text \in TruncationTexts, budget \in 0..MaxBudget :
          CallTruncateText(text, budget)
    \/ CallTruncateTextAgain

SpecTruncate == Init /\ [][TruncateNext]_vars

\* Every result kickoff() may hand over, then the call
InitNormalize ==
    /\ InitSession
    /\ \E r \in Results : normalization = NotCalled(r)
    /\ NothingAssembled
    /\ DefaultForm

SpecNormalize == InitNormalize /\ [][CallResultToMarkdown]_vars

\* Every form a submission may carry, then the assembly
InitAssemble ==
    /\ InitSession
    /\ normalization = NotCalled(PlainResult(""))
    /\ NothingAssembled
    /\ uploaded_files \in Uploads
    /\ truncate_chars \in 1..MaxBudget
    /\ directive_inputs \in DirectiveInputs

SpecAssemble == InitAssemble /\ [][AssembleContext]_vars

----------------------------------------------------------------------------
(* Claims *)

MostRecentFirst(entries) ==
    \A i, j \in 1..Len(entries) :
        i < j => entries[i].timestamp > entries[j].timestamp

\* The first HistoryCap entries of `entry` followed by `entries`
CappedInsert(entry, entries) ==
    [i \in 1..Min(Len(entries) + 1, HistoryCap) |->
        IF i = 1 THEN entry ELSE entries[i - 1]]

AppendEnds == {"append", "append_write_failed"}
ClearEnds == {"clear", "clear_unlink_failed"}
LoadEnds == {"load", "load_absent", "load_unreadable", "load_corrupt"}

\* C1: whatever appends and clears were made from an empty history, the session
\* list and the persisted list hold at most 20 entries each, and an entry appended
\* later stands before every entry appended earlier.
C1_CapAndOrder ==
    /\ Len(meeting_history) <= HistoryCap
    /\ MostRecentFirst(meeting_history)
    /\ Len(history_file.entries) <= HistoryCap
    /\ MostRecentFirst(history_file.entries)

\* An append that evicted the oldest entry of a full history, after a clear
C1_Witness ==
    /\ last = "append"
    /\ Len(before.history) = HistoryCap
    /\ Len(meeting_history) = HistoryCap
    /\ before.history[HistoryCap].timestamp > 1

\* C2: after N >= 20 appends in a row the history holds exactly 20 entries, those
\* of the calls N-19..N with the latest first, and when N > 20 the entry of call
\* N-20 and every earlier one is gone.
C2_LastTwentyKept ==
    streak >= HistoryCap =>
        /\ Len(meeting_history) = HistoryCap
        /\ \A i \in 1..HistoryCap : meeting_history[i].timestamp = clock - i + 1
        /\ streak > HistoryCap =>
              \A i \in 1..Len(meeting_history) :
                  meeting_history[i].timestamp > clock - HistoryCap

\* The 25th append in a row
C2_Witness ==
    /\ streak = HistoryCap + 5
    /\ last \in AppendEnds
    /\ \A i \in 1..Len(meeting_history) : meeting_history[i].timestamp # 1

\* C3: when a task of the run raises at stage k, the tasks started are exactly the
\* first k, each once, one error was reported, there is no result, and the session
\* list and the file are what they were when Prepare Meeting was clicked.
C3_FailedRunAborts ==
    last = "prepare_failed" =>
        /\ pc = "idle"
        /\ in_flight = {}
        /\ invoked = SubSeq(Tasks, 1, done + 1)
        /\ done < Len(Tasks)
        /\ surfaced = 1
        /\ result = "none"
        /\ ~uncaught
        /\ meeting_history = before.history
        /\ history_file = before.file

\* A run that failed at stage 3 of 6 with a brief already archived
C3_Witness ==
    /\ last = "prepare_failed"
    /\ done = 2
    /\ meeting_history # << >>
    /\ history_file.state = "ok"

\* C4: the tasks of a run are started in the order of the crew's task list, a
\* task is started only when all tasks before it have returned, and at most one
\* task is being executed at a time.
C4_SequentialOrder ==
    /\ Cardinality(in_flight) <= 1
    /\ Len(invoked) <= Len(Tasks)
    /\ invoked = SubSeq(<<"context_analysis_task", "industry_analysis_task",
                          "strategy_development_task", "executive_brief_task",
                          "rehearsal_simulation_task", "follow_up_activation_task">>,
                        1, Len(invoked))
    /\ pc = "kickoff" => /\ Len(invoked) = done + Cardinality(in_flight)
                         /\ \A t \in in_flight : t = invoked[Len(invoked)]

\* The sixth task being executed after the first five returned
C4_Witness ==
    /\ pc = "kickoff"
    /\ done = 5
    /\ in_flight = {"follow_up_activation_task"}

\* C5: after a run whose kickoff returned a brief, the session list is the list
\* from before the run with one entry put in front (cut to the cap), and that
\* entry carries the submitted company, objective and document names; when the
\* file was written it holds the same list.
C5_SuccessfulRunArchived ==
    last \in {"prepare_archived", "prepare_write_failed"} =>
        /\ result = "brief"
        /\ Len(meeting_history) = Min(Len(before.history) + 1, HistoryCap)
        /\ meeting_history[1].company = submitted.company
        /\ meeting_history[1].objective = submitted.objective
        /\ meeting_history[1].documents = submitted.documents
        /\ \A i \in 2..Len(meeting_history) : meeting_history[i] = before.history[i - 1]
        /\ \A i \in 1..Len(before.history) :
              meeting_history[1].timestamp > before.history[i].timestamp
        /\ last = "prepare_archived" => history_file.entries = meeting_history

\* A second brief archived, for a run submitted with two documents
C5_Witness ==
    /\ last = "prepare_archived"
    /\ before.history # << >>
    /\ submitted.company = "Acme Corp"
    /\ Len(submitted.documents) = 2

\* C6: when append(entry) returns, the file decodes to the session list, which is
\* the entry followed by the list from before, cut to its first 20.
C6_PersistedEqualsMemory ==
    last = "append" =>
        /\ ~uncaught
        /\ history_file.state = "ok"
        /\ history_file.entries = meeting_history
        /\ meeting_history = CappedInsert(meeting_history[1], before.history)
        /\ meeting_history[1].timestamp = clock

\* An append to a full history
C6_Witness ==
    /\ last = "append"
    /\ Len(before.history) = HistoryCap
    /\ before.file.state = "ok"

\* What load() returns in the current state, for each outcome of reading the file
LoadsEmpty ==
    \A rd \in ReadOutcomes :
        /\ ReadHistoryFile(history_file, rd).value = << >>
        /\ ~ReadHistoryFile(history_file, rd).raised

\* C7 as stated: after clear() a load() returns an empty collection whatever the
\* store held and whether or not the file could be removed, clear() does not
\* raise, and the session list is empty.
C7_ClearThenLoadEmpty ==
    last \in ClearEnds =>
        /\ ~uncaught
        /\ meeting_history = << >>
        /\ LoadsEmpty

\* C7 as amended: after clear() the session list is empty and clear() did not
\* raise; a load() returns an empty collection when the file was absent or was
\* removed; when the removal failed the file is what it was before.
C7_ClearThenLoadEmptyIfRemoved ==
    /\ last \in ClearEnds => ~uncaught /\ meeting_history = << >>
    /\ last = "clear" => history_file.state = "absent" /\ LoadsEmpty
    /\ last = "clear_unlink_failed" => history_file = before.file

\* A clear of a store whose file held entries
C7_Witness ==
    /\ last = "clear"
    /\ before.file.state = "ok"
    /\ before.file.entries # << >>
    /\ before.history # << >>

\* C8: load() does not raise; it returns the persisted list when the file exists
\* and can be read and decoded, and an empty list otherwise.
C8_LoadTotal ==
    last \in LoadEnds =>
        /\ ~uncaught
        /\ meeting_history = loaded
        /\ loaded = IF history_file.state = "ok" /\ last # "load_unreadable"
                    THEN history_file.entries ELSE << >>
        /\ last = "load" <=> history_file.state = "ok" /\ last # "load_unreadable"

\* A load of a file that a failed write left cut short
C8_Witness ==
    /\ last = "load_corrupt"
    /\ history_file.state = "corrupt"
    /\ before.history # << >>

\* C9: no failure of reading, writing or removing the history file escapes the
\* handler in which it happens.
C9_PersistenceErrorContained == ~uncaught

\* C10: when a handler ends in an error, the session's history list and practice
\* turns are what they were when it began.
ErrorEnds == {"prepare_failed", "transcript_failed", "objection_failed",
              "score_failed", "prepare_write_failed", "transcript_write_failed",
              "append_write_failed"}
C10_ErrorPathsKeepSession ==
    last \in ErrorEnds =>
        /\ meeting_history = before.history
        /\ practice_history = before.practice

OverBudget == Len(truncation.text) > truncation.budget

\* C11 as stated: truncate(T, B) returns T unchanged exactly when length(T) <= B;
\* otherwise it returns the first B characters of T followed by the marker, of
\* length B + length(marker).
C11_TruncateIff ==
    /\ truncation.out = truncation.text <=> ~OverBudget
    /\ OverBudget =>
          /\ truncation.out = SubSeq(truncation.text, 1, truncation.budget)
                                  \o TruncationMarker
          /\ Len(truncation.out) = truncation.budget + Len(TruncationMarker)

\* C11 as amended: truncate(T, B) returns T unchanged when length(T) <= B;
\* otherwise it returns the first B characters of T followed by the marker, of
\* length B + length(marker), which is T again exactly when the characters of T
\* after the first B are the marker.
C11_TruncateContract ==
    /\ ~OverBudget => truncation.out = truncation.text
    /\ OverBudget =>
          /\ truncation.out = SubSeq(truncation.text, 1, truncation.budget)
                                  \o TruncationMarker
          /\ Len(truncation.out) = truncation.budget + Len(TruncationMarker)
          /\ truncation.out = truncation.text <=>
                SubSeq(truncation.text, truncation.budget + 1, Len(truncation.text))
                    = TruncationMarker

\* A text over a positive budget, cut and marked
C11_Witness ==
    /\ OverBudget
    /\ truncation.budget > 0
    /\ truncation.out # truncation.text
    /\ Len(truncation.out) > Len(truncation.text)

\* The fields in the claimed priority order, and the first of them in one of `states`
ClaimedOrder == <<"raw", "final_output", "result", "output">>
FirstIn(attrs, states) ==
    LET hits == {i \in 1..4 : attrs[ClaimedOrder[i]] \in states}
    IN  IF hits = {} THEN 0 ELSE CHOOSE i \in hits : \A j \in hits : i <= j

NormalizedObject ==
    /\ normalization.called
    /\ normalization.result.kind = "obj"
    /\ ~normalization.out.raised

\* C12 as stated: a structured result yields the first field, in the order raw,
\* final_output, result, output, that holds a non-empty string; when none does it
\* yields a textual conversion of the whole object, and "" only when that fails.
C12_FirstNonEmptyField ==
    NormalizedObject =>
        LET r == normalization.result
            k == FirstIn(r.attrs, {"blank", "text"})
        IN  IF k # 0
            THEN normalization.out.value = AttrText(ClaimedOrder[k], r.attrs[ClaimedOrder[k]])
            ELSE /\ normalization.out.value \in {"json of to_dict()", "str(result)", ""}
                 /\ normalization.out.value = "" => r.str = "raises"

\* C12 as amended: a structured result yields the first field, in the order raw,
\* final_output, result, output, that holds a string with a character other than
\* whitespace; when none does it yields the JSON text of to_dict() if the object
\* has one and the export succeeds, else str(result), else "" when str() raises.
C12_FirstNonBlankField ==
    NormalizedObject =>
        LET r == normalization.result
            k == FirstIn(r.attrs, {"text"})
        IN  IF k # 0
            THEN normalization.out.value = AttrText(ClaimedOrder[k], "text")
            ELSE normalization.out.value =
                    IF r.to_dict = "ok" THEN "json of to_dict()"
                    ELSE IF r.str = "ok" THEN "str(result)" ELSE ""

\* raw holds only whitespace, final_output and output hold text: final_output wins
C12_Witness ==
    /\ NormalizedObject
    /\ normalization.result.attrs["raw"] = "blank"
    /\ normalization.result.attrs["final_output"] = "text"
    /\ normalization.result.attrs["output"] = "text"
    /\ normalization.out.value = "final_output text"

\* C13: _result_to_markdown returns a string for every input and never raises.
C13_NormalizationTotal == normalization.called => ~normalization.out.raised

\* The positions of the uploaded files that hold bytes, whose extraction
\* succeeded and whose text has a character that is no whitespace
NonBlank(text) == \E i \in 1..Len(text) : text[i] \notin Whitespace
KeptFiles ==
    {i \in 1..Len(uploaded_files) :
        /\ uploaded_files[i].bytes
        /\ uploaded_files[i].readable
        /\ NonBlank(uploaded_files[i].text)}
FailedFiles ==
    {i \in 1..Len(uploaded_files) :
        uploaded_files[i].bytes /\ ~uploaded_files[i].readable}

\* The strictly increasing maps from 1..n onto the set `positions`
Increasing(n, positions) ==
    {f \in [1..n -> 1..Len(uploaded_files)] :
        /\ \A i, j \in 1..n : i < j => f[i] < f[j]
        /\ {f[i] : i \in 1..n} = positions}

\* C14 as stated: with the live-intelligence and the compliance toggle off the
\* directive text is exactly the one fallback bullet.
C14_TogglesOffFallback ==
    (last = "assemble" /\ ~directive_inputs.live /\ ~directive_inputs.regulatory)
        => context_directives_text = <<Bullet(FallbackDirective)>>

\* C14, amended: with both toggles off and no historical notes supplied the
\* directive text is exactly the one fallback bullet.
C14_NothingActiveFallback ==
    (/\ last = "assemble"
     /\ ~directive_inputs.live
     /\ ~directive_inputs.regulatory
     /\ directive_inputs.notes = "")
        => context_directives_text = <<Bullet(FallbackDirective)>>

C14_Witness ==
    /\ last = "assemble"
    /\ directive_inputs = [live |-> FALSE, regulatory |-> FALSE, notes |-> ""]
    /\ Len(context_directives_text) = 1

\* C15: the documents ingestion returns are the uploaded files that hold bytes,
\* were extracted and have a text that is not blank, in the order of the upload
\* and no others, and every document's content is non-empty.
C15_IngestionSubsequence ==
    last = "assemble" =>
        \E f \in Increasing(Len(supporting_documents), KeptFiles) :
            \A j \in 1..Len(supporting_documents) :
                /\ supporting_documents[j].name = uploaded_files[f[j]].name
                /\ supporting_documents[j].content # << >>

\* An upload whose first file is dropped and whose second is kept
C15_Witness ==
    /\ last = "assemble"
    /\ Len(uploaded_files) = 2
    /\ uploaded_files[1].bytes /\ uploaded_files[1].readable
    /\ uploaded_files[1].text = <<" ">>
    /\ Len(supporting_documents) = 1
    /\ supporting_documents[1].name = uploaded_files[2].name

\* C16: every file whose extraction failed got exactly one warning, which names
\* it, the warnings standing in the order of the files; the failed files are not
\* among the documents, every other file that qualifies still is, and the call
\* returned.
C16_ExtractionFailureContained ==
    last = "assemble" =>
        /\ ~uncaught
        /\ \E g \in Increasing(Len(warnings), FailedFiles) :
              \A j \in 1..Len(warnings) : warnings[j][2] = uploaded_files[g[j]].name
        /\ Len(supporting_documents) = Cardinality(KeptFiles)

\* A file that failed, followed by a file that was ingested
C16_Witness ==
    /\ last = "assemble"
    /\ Len(uploaded_files) = 2
    /\ 1 \in FailedFiles
    /\ Len(warnings) = 1
    /\ Len(supporting_documents) = 1
    /\ supporting_documents[1].name = uploaded_files[2].name

\* The digest cut at its section separators
RECURSIVE SectionsOf(_)
SectionsOf(digest) ==
    IF \A k \in 1..Len(digest) : digest[k] # SectionSeparator THEN <<digest>>
    ELSE LET k == CHOOSE k \in 1..Len(digest) :
                      /\ digest[k] = SectionSeparator
                      /\ \A h \in 1..(k - 1) : digest[h] # SectionSeparator
         IN <<SubSeq(digest, 1, k - 1)>> \o SectionsOf(SubSeq(digest, k + 1, Len(digest)))

\* The content cut to a budget as the digest shows it
Preview(content, budget) ==
    IF Len(content) <= budget THEN content
    ELSE [i \in 1..(budget + Len(TruncationMarker)) |->
             IF i <= budget THEN content[i] ELSE TruncationMarker[i - budget]]

\* C17: for no document the digest is the placeholder sentence and not the empty
\* text; for n >= 1 documents it has n sections, the i-th holding the name of
\* the i-th document and its content cut to truncate_chars.
C17_DigestSections ==
    last = "assemble" =>
        IF supporting_documents = << >>
        THEN /\ documents_digest = Placeholder
             /\ documents_digest # << >>
        ELSE /\ Len(SectionsOf(documents_digest)) = Len(supporting_documents)
             /\ \A i \in 1..Len(supporting_documents) :
                   SectionsOf(documents_digest)[i] =
                       <<"Document: ", supporting_documents[i].name,
                         "\nContent Preview:\n">>
                       \o Preview(supporting_documents[i].content, truncate_chars)

\* Two documents, the first shown whole and the second cut
C17_Witness ==
    /\ last = "assemble"
    /\ Len(supporting_documents) = 2
    /\ Len(supporting_documents[1].content) <= truncate_chars
    /\ Len(supporting_documents[2].content) > truncate_chars
    /\ Len(SectionsOf(documents_digest)) = 2

\* C19 helpers: the bullets of the active conditions in the fixed order, and
\* the bullets of the text other than the fallback
ActiveBullets ==
    LET conditions ==
            <<[on |-> directive_inputs.live, bullet |-> Bullet(LiveDirective)],
              [on |-> directive_inputs.regulatory, bullet |-> Bullet(RegulatoryDirective)],
              [on |-> directive_inputs.notes # "", bullet |-> Bullet(NotesDirective)]>>
        On(c) == c.on
        active == SelectSeq(conditions, On)
    IN [i \in 1..Len(active) |-> active[i].bullet]
NonFallbackBullets ==
    LET NotFallback(b) == b # Bullet(FallbackDirective)
    IN SelectSeq(context_directives_text, NotFallback)
FallbackBullets ==
    LET IsFallback(b) == b = Bullet(FallbackDirective)
    IN SelectSeq(context_directives_text, IsFallback)


ObjectionEnds == {"objection", "objection_failed", "objection_empty"}
ScoreEnds == {"score", "score_failed", "score_empty"}

\* The turns the practice log of the last handler was drawn from: the session
\* as the objection handler found it, or with the user's turn the scoring
\* handler had just appended
LoggedTurns ==
    IF last \in ObjectionEnds THEN before.practice
    ELSE SubSeq(practice_history, 1, Len(before.practice) + 1)

\* C18: the practice log of an objection or scoring task has at most 10 lines,
\* and they are the lines of the last min(10, n) of the n turns of the session,
\* in the order of the session.
C18_PracticeLogRecent ==
    last \in ObjectionEnds \cup ScoreEnds =>
        /\ Len(practice_log) <= PracticeLogTurns
        /\ Len(practice_log) = Min(PracticeLogTurns, Len(LoggedTurns))
        /\ \A k \in 1..Len(practice_log) :
              practice_log[k] =
                  PracticeLine(LoggedTurns[Len(LoggedTurns) - Len(practice_log) + k])

\* A scoring task built on a session of more than 10 turns whose oldest turn,
\* left out of the log, differs from the oldest turn in it
C18_Witness ==
    /\ last = "score"
    /\ Len(LoggedTurns) > PracticeLogTurns
    /\ Len(practice_log) = PracticeLogTurns
    /\ PracticeLine(LoggedTurns[1]) # practice_log[1]

\* C19: the bullets other than the fallback are those of the active conditions
\* (live toggle, compliance toggle, notes supplied), one each and in that order,
\* and the fallback bullet is there exactly when no condition is active.
C19_BulletPerCondition ==
    last = "assemble" =>
        /\ NonFallbackBullets = ActiveBullets
        /\ Len(FallbackBullets) = (IF ActiveBullets = << >> THEN 1 ELSE 0)

\* All three conditions active
C19_Witness ==
    /\ last = "assemble"
    /\ directive_inputs.live /\ directive_inputs.regulatory
    /\ directive_inputs.notes # ""
    /\ Len(context_directives_text) = 3

SaveEnds == AppendEnds \cup {"prepare_archived", "prepare_write_failed",
                             "transcript_saved", "transcript_write_failed"}

\* C20: a handler that appends leaves every entry the list held as it was, one
\* place further down, the entry at place 20 alone dropping out; loading an entry
\* into the form, and every handler that neither appends nor clears nor starts a
\* session, leaves the list and the file as they were.
C20_EntriesImmutable ==
    /\ last \in SaveEnds =>
          /\ Len(meeting_history) = Min(Len(before.history) + 1, HistoryCap)
          /\ \A i \in 1..Len(before.history) :
                i < HistoryCap => meeting_history[i + 1] = before.history[i]
    /\ last = "load_into_form" =>
          /\ meeting_history = before.history
          /\ history_file = before.file
          /\ \E i \in 1..Len(meeting_history) :
                /\ submitted.company = meeting_history[i].company
                /\ submitted.objective = meeting_history[i].objective
    /\ last \notin SaveEnds \cup ClearEnds \cup LoadEnds => meeting_history = before.history

\* An append to a full list whose entries had been loaded into the form before
C20_Witness ==
    /\ last \in SaveEnds
    /\ Len(before.history) = HistoryCap
    /\ submitted.company = before.history[HistoryCap].company
    /\ meeting_history[HistoryCap] = before.history[HistoryCap - 1]

\* C24: truncate(truncate(T, B), B) = truncate(T, B): called on the value it
\* returned for T, with the same budget B, _truncate_text returns that value.
C24_TruncateIdempotent == truncation.again => truncation.out = truncation.text

\* The second call found its text over the budget and cut it again
C24_Witness ==
    /\ truncation.again
    /\ truncation.budget > 0
    /\ Len(truncation.text) = truncation.budget + Len(TruncationMarker)
    /\ truncation.out = truncation.text

\* C23: the practice session after a handler is the session before it with one
\* coach turn appended (objection generated), with the user's turn and one coach
\* turn appended (response scored), or empty (Clear session); after every other
\* handler of a session it is what it was, so turns stay in the order they were
\* inserted.
C23_PracticeSessionChanges ==
    /\ last = "objection" =>
          /\ Len(practice_history) = Len(before.practice) + 1
          /\ SubSeq(practice_history, 1, Len(before.practice)) = before.practice
          /\ practice_history[Len(practice_history)].role = "coach"
    /\ last = "score" =>
          /\ Len(practice_history) = Len(before.practice) + 2
          /\ SubSeq(practice_history, 1, Len(before.practice)) = before.practice
          /\ practice_history[Len(practice_history) - 1].role = "you"
          /\ practice_history[Len(practice_history)].role = "coach"
    /\ last = "clear_session" => practice_history = << >>
    /\ last \notin {"objection", "score", "clear_session"} \cup LoadEnds =>
          practice_history = before.practice

PrepareEnds == {"prepare_rejected", "prepare_running", "prepare_failed",
                "prepare_empty", "prepare_archived", "prepare_write_failed"}

\* C22: a Prepare Meeting click with the company name or the objective empty
\* ends at once, no task started and the history list and file as they were; a
\* run is under way only for a submission with both; and a run whose result is
\* empty leaves the history list and file as they were.
C22_NoRunNoWrite ==
    /\ (last \in PrepareEnds /\ (submitted.company = "" \/ submitted.objective = "")) =>
          /\ last = "prepare_rejected"
          /\ pc = "idle"
          /\ invoked = << >>
          /\ in_flight = {}
          /\ done = 0
          /\ meeting_history = before.history
          /\ history_file = before.file
    /\ last = "prepare_empty" =>
          /\ result = "empty"
          /\ meeting_history = before.history
          /\ history_file = before.file

\* A click without an objective, the library holding a brief
C22_Witness ==
    /\ last = "prepare_rejected"
    /\ submitted.company # ""
    /\ submitted.objective = ""
    /\ meeting_history # << >>
    /\ history_file.state = "ok"

\* The run handed over by kickoff() or by its except clause
RunOver ==
    /\ pc = "idle"
    /\ last \in {"prepare_failed", "prepare_empty", "prepare_archived",
                 "prepare_write_failed"}

\* kickoff() returned, all six tasks done in order, no error reported
CompletedWithResult ==
    /\ result \in {"brief", "empty"}
    /\ done = Len(Tasks)
    /\ invoked = Tasks
    /\ in_flight = {}
    /\ surfaced = 0

\* kickoff() raised: one error reported, no result, nothing archived
SingleSurfacedFailure ==
    /\ result = "none"
    /\ surfaced = 1
    /\ in_flight = {}
    /\ meeting_history = before.history
    /\ history_file = before.file

\* C21: with a backend that answers every call, a run that was started is
\* eventually over, and a run that is over completed with the result of
\* kickoff() or failed with one reported error, never both and never neither.
C21_RunEndsOneOfTwo ==
    /\ [](RunOver => (CompletedWithResult /\ ~SingleSurfacedFailure)
                      \/ (SingleSurfacedFailure /\ ~CompletedWithResult))
    /\ (pc = "kickoff") ~> RunOver

\* A second run that failed at its fourth task after a first that completed
C21_Witness ==
    /\ RunOver
    /\ SingleSurfacedFailure
    /\ done = 3
    /\ Len(invoked) = 4
    /\ Len(meeting_history) = 1

====
